---- MODULE Spec2Model ----
(***************************************************************************)
(* cnoid::LinkTraverse (src/src/Body/LinkTraverse.cpp): the traversal      *)
(* builder (find / traverse / append / remove /                            *)
(* prependRootAdjacentLinkToward) and the forward kinematics evaluator     *)
(* (calcForwardKinematics).                                                *)
(*                                                                         *)
(* Numbers.  Eigen's double-precision 3-vectors and 3x3 matrices are       *)
(* modelled by integer vectors and matrices; joint angles are counted in   *)
(* quarter turns, for which AngleAxisd has integer entries, so that every  *)
(* formula of the code is evaluated exactly (rounding is not modelled).    *)
(***************************************************************************)
EXTENDS Integers, Sequences, FiniteSets, TLC

\* ---------------------------------------------------------------- bounds
\* Links of the link graph in the traversal-builder specification.
NumLinks == 4
\* Mechanisms (bodies) a link can belong to.
NumBodies == 2
\* Links of the link graph in the evaluator specification and in the
\* specification of the whole class.
FKLinks == 3
\* The longest sequence append and prependRootAdjacentLinkToward build up.
MaxLen == 3

\* The null Link pointer.
Null == 0

\* ------------------------------------------------ Eigen vector algebra
Zero3 == <<0, 0, 0>>
Identity3 == << <<1, 0, 0>>, <<0, 1, 0>>, <<0, 0, 1>> >>

Dot(u, v) == u[1] * v[1] + u[2] * v[2] + u[3] * v[3]

VAdd(u, v) == <<u[1] + v[1], u[2] + v[2], u[3] + v[3]>>

VSub(u, v) == <<u[1] - v[1], u[2] - v[2], u[3] - v[3]>>

VScale(s, u) == <<s * u[1], s * u[2], s * u[3]>>

Cross(u, v) ==
    <<u[2] * v[3] - u[3] * v[2], u[3] * v[1] - u[1] * v[3], u[1] * v[2] - u[2] * v[1]>>

Col(M, j) == <<M[1][j], M[2][j], M[3][j]>>

Transpose(M) == <<Col(M, 1), Col(M, 2), Col(M, 3)>>

MatVec(M, u) == <<Dot(M[1], u), Dot(M[2], u), Dot(M[3], u)>>

MatMul(A, B) ==
    << <<Dot(A[1], Col(B, 1)), Dot(A[1], Col(B, 2)), Dot(A[1], Col(B, 3))>>,
       <<Dot(A[2], Col(B, 1)), Dot(A[2], Col(B, 2)), Dot(A[2], Col(B, 3))>>,
       <<Dot(A[3], Col(B, 1)), Dot(A[3], Col(B, 2)), Dot(A[3], Col(B, 3))>> >>

\* sin and cos of an angle of k quarter turns.
SinQ(k) == CASE k % 4 = 1 -> 1 [] k % 4 = 3 -> -1 [] OTHER -> 0

CosQ(k) == CASE k % 4 = 0 -> 1 [] k % 4 = 2 -> -1 [] OTHER -> 0

\* Eigen::AngleAxisd(angle, axis) as a rotation matrix (toRotationMatrix:
\* c*I + (1-c)*axis*axis^T + s*[axis]x), angle in quarter turns.
AngleAxisd(angle, axis) ==
    LET s == SinQ(angle)
        c == CosQ(angle)
        k == 1 - c
    IN  << <<k * axis[1] * axis[1] + c,
             k * axis[1] * axis[2] - s * axis[3],
             k * axis[1] * axis[3] + s * axis[2]>>,
           <<k * axis[2] * axis[1] + s * axis[3],
             k * axis[2] * axis[2] + c,
             k * axis[2] * axis[3] - s * axis[1]>>,
           <<k * axis[3] * axis[1] - s * axis[2],
             k * axis[3] * axis[2] + s * axis[1],
             k * axis[3] * axis[3] + c>> >>

\* AngleAxisd::inverse(): the same axis, the negated angle.
AngleAxisdInverse(angle, axis) == AngleAxisd(0 - angle, axis)

\* ------------------------------------------------------------- state
VARIABLES
    parent,                 \* Link::parent() of every link (Null: none)
    child,                  \* Link::child(): first child
    sibling,                \* Link::sibling(): next child of the same parent
    body,                   \* Link::body(): the mechanism a link belongs to
    joint,                  \* per link: jointType, q, dq, ddq, a, d, b, Rb
    cart,                   \* per link: R, p, w, v, dw, dv
    links_,                 \* LinkTraverse::links_
    numUpwardConnections,   \* LinkTraverse::numUpwardConnections
    op,                     \* the last operation called, its arguments and result
    written,                \* links written by the last calcForwardKinematics, in order
    read,                   \* links whose state each of these writes was computed from
    crashed,                \* a call read outside the sequence or through a null link
    calls                   \* calcForwardKinematics calls in progress on other threads

vars == <<parent, child, sibling, body, joint, cart, links_, numUpwardConnections,
          op, written, read, crashed, calls>>

graph == <<parent, child, sibling, body>>

Links == DOMAIN parent

\* ------------------------------------------------------ the link graph
\* The link graphs the traversal is built over: parent maps of ordered
\* forests on the links 1..n.  Every ordered forest is isomorphic to one whose
\* parents precede their children and whose siblings are listed in increasing
\* order, so these are all link trees up to the naming of the links.
ParentMaps(n) == {f \in [1..n -> 0..(n - 1)] : \A i \in 1..n : f[i] < i}

SetMin(S) == CHOOSE x \in S : \A y \in S : x <= y

\* The first child of link l under the parent map par.
FirstChild(par, l) ==
    LET cs == {c \in DOMAIN par : par[c] = l}
    IN  IF cs = {} THEN Null ELSE SetMin(cs)

\* The next sibling of link c under the parent map par.
NextSibling(par, c) ==
    LET ss == {s \in DOMAIN par : par[c] # Null /\ par[s] = par[c] /\ s > c}
    IN  IF ss = {} THEN Null ELSE SetMin(ss)

SetMax(S) == CHOOSE x \in S : \A y \in S : y <= x

\* The mechanism of every link, up to the naming of the mechanisms: link 1 is
\* in mechanism 1 and a mechanism's number is first used after all lower ones.
BodyMaps(n) ==
    {f \in [1..n -> 1..NumBodies] :
        /\ f[1] = 1
        /\ \A i \in 2..n : f[i] <= 1 + SetMax({f[j] : j \in 1..(i - 1)})}

\* A fixed joint with no offset, and a link at rest at the origin.
FixedJoint ==
    [jointType |-> "FIXED_JOINT", q |-> 0, dq |-> 0, ddq |-> 0,
     a |-> <<0, 0, 1>>, d |-> <<0, 0, 1>>, b |-> Zero3, Rb |-> Identity3]

AtOrigin ==
    [R |-> Identity3, p |-> Zero3, w |-> Zero3, v |-> Zero3, dw |-> Zero3, dv |-> Zero3]

\* ------------------------------------------------- the traversal builder
\* A traversal value: the sequence and the upward-connection count.
Traversal(ls, n) == [links_ |-> ls, numUpwardConnections |-> n]

EmptyTraversal == Traversal(<<>>, 0)

RECURSIVE traverse(_, _, _, _, _, _)
RECURSIVE traverseChildren(_, _, _)

\* mutant of pushBack: every visited link is counted as an upward connection
pushBackCountsAll(t, link, isUpward) ==
    Traversal(Append(t.links_, link), t.numUpwardConnections + 1)

\* traverse, lines 62-65: links_.push_back(link); if(isUpward) ++numUpwardConnections
pushBack(t, link, isUpward) ==
    Traversal(Append(t.links_, link),
              IF isUpward THEN t.numUpwardConnections + 1 ELSE t.numUpwardConnections)

\* mutant of traverseChildren: the link arrived from is not excluded
traverseChildrenNoPrev(t, c, prev) ==
    IF c = Null THEN t
    ELSE traverseChildren(traverse(t, c, FALSE, TRUE, FALSE, Null), sibling[c], prev)

\* traverse, lines 72-76: the loop over link->child(), child->sibling()
traverseChildren(t, c, prev) ==
    IF c = Null THEN t
    ELSE traverseChildren(
             IF c # prev THEN traverse(t, c, FALSE, TRUE, FALSE, Null) ELSE t,
             sibling[c], prev)

\* mutant of traverse: the parent is visited with the caller's doDownward
traversePassesDoDownward(t, link, doUpward, doDownward, isUpward, prev) ==
    LET t1 == pushBack(t, link, isUpward)
        par == parent[link]
        t2 == IF doUpward /\ par # Null /\ body[par] = body[link]
              THEN traverse(t1, par, doUpward, doDownward, TRUE, link)
              ELSE t1
    IN  IF doDownward THEN traverseChildren(t2, child[link], prev) ELSE t2

\* mutant of traverse: the children are visited before the parent
traverseChildrenFirst(t, link, doUpward, doDownward, isUpward, prev) ==
    LET t1 == pushBack(t, link, isUpward)
        par == parent[link]
        t2 == IF doDownward THEN traverseChildren(t1, child[link], prev) ELSE t1
    IN  IF doUpward /\ par # Null /\ body[par] = body[link]
        THEN traverse(t2, par, doUpward, TRUE, TRUE, link)
        ELSE t2

\* mutant of traverse: the step to the parent is not marked as upward
traverseUpUnmarked(t, link, doUpward, doDownward, isUpward, prev) ==
    LET t1 == pushBack(t, link, isUpward)
        par == parent[link]
        t2 == IF doUpward /\ par # Null /\ body[par] = body[link]
              THEN traverse(t1, par, doUpward, TRUE, FALSE, link)
              ELSE t1
    IN  IF doDownward THEN traverseChildren(t2, child[link], prev) ELSE t2

\* LinkTraverse::traverse
traverse(t, link, doUpward, doDownward, isUpward, prev) ==
    LET t1 == pushBack(t, link, isUpward)
        par == parent[link]
        t2 == IF doUpward /\ par # Null /\ body[par] = body[link]
              THEN traverse(t1, par, doUpward, TRUE, TRUE, link)
              ELSE t1
    IN  IF doDownward THEN traverseChildren(t2, child[link], prev) ELSE t2

\* LinkTraverse::find as a function of its arguments: reset, then traverse
findResult(root, doUpward, doDownward) ==
    traverse(EmptyTraversal, root, doUpward, doDownward, FALSE, Null)

\* mutant of Cleared: the count of the earlier contents is kept
ClearedKeepsCount(t) == [t EXCEPT !.links_ = <<>>]

\* find, lines 54-55: numUpwardConnections = 0; links_.clear()
Cleared(t) == [t EXCEPT !.numUpwardConnections = 0, !.links_ = <<>>]

\* LinkTraverse::find(root, doUpward, doDownward); op.before is what the
\* traversal held when find was called.
find(root, doUpward, doDownward) ==
    LET before == Traversal(links_, numUpwardConnections)
        t == traverse(Cleared(before), root, doUpward, doDownward, FALSE, Null)
    IN  /\ ~crashed
        /\ links_' = t.links_
        /\ numUpwardConnections' = t.numUpwardConnections
        /\ op' = [name |-> "find", link |-> root, doUpward |-> doUpward,
                  doDownward |-> doDownward, before |-> before]
        /\ written' = <<>>
        /\ read' = <<>>
        /\ UNCHANGED <<graph, joint, cart, crashed, calls>>

\* LinkTraverse::clear()
clear ==
    /\ ~crashed
    /\ links_ # <<>>
    /\ links_' = <<>>
    /\ numUpwardConnections' = 0
    /\ op' = [name |-> "clear"]
    /\ written' = <<>>
    /\ read' = <<>>
    /\ UNCHANGED <<graph, joint, cart, crashed, calls>>

\* LinkTraverse::LinkTraverse(): an empty sequence, numUpwardConnections = 0
DefaultConstructed ==
    /\ links_ = <<>>
    /\ numUpwardConnections = 0
    /\ op = [name |-> "LinkTraverse"]
    /\ written = <<>>
    /\ read = <<>>
    /\ crashed = FALSE
    /\ calls = <<>>

\* --------------------------------- specification of the traversal builder
\* Any ordered forest of NumLinks links, each link in any of NumBodies
\* mechanisms; find is called with any reference link and any flags.
InitBuild ==
    /\ parent \in ParentMaps(NumLinks)
    /\ child = [l \in 1..NumLinks |-> FirstChild(parent, l)]
    /\ sibling = [l \in 1..NumLinks |-> NextSibling(parent, l)]
    /\ body \in BodyMaps(NumLinks)
    /\ joint = [l \in 1..NumLinks |-> FixedJoint]
    /\ cart = [l \in 1..NumLinks |-> AtOrigin]
    /\ DefaultConstructed

NextBuild ==
    \/ \E root \in Links, doUpward \in BOOLEAN, doDownward \in BOOLEAN :
           find(root, doUpward, doDownward)
    \/ clear

SpecBuild == InitBuild /\ [][NextBuild]_vars

\* ----------------------------------------------- incremental operations
\* mutant of append: the count grows on a downward edge instead
appendCountsDownward(link, isDownward) ==
    /\ ~crashed
    /\ links_' = Append(links_, link)
    /\ numUpwardConnections' =
           (IF isDownward THEN numUpwardConnections + 1 ELSE numUpwardConnections)
    /\ op' = [name |-> "append", link |-> link, isDownward |-> isDownward]
    /\ written' = <<>>
    /\ read' = <<>>
    /\ UNCHANGED <<graph, joint, cart, crashed, calls>>

\* LinkTraverse::append(link, isDownward)
append(link, isDownward) ==
    /\ ~crashed
    /\ links_' = Append(links_, link)
    /\ numUpwardConnections' =
           (IF ~isDownward THEN numUpwardConnections + 1 ELSE numUpwardConnections)
    /\ op' = [name |-> "append", link |-> link, isDownward |-> isDownward]
    /\ written' = <<>>
    /\ read' = <<>>
    /\ UNCHANGED <<graph, joint, cart, crashed, calls>>

\* mutant of IndexOf: a link that is not found is taken to be at the front
IndexOfOrFront(link) ==
    IF \E i \in DOMAIN links_ : links_[i] = link
    THEN SetMin({i \in DOMAIN links_ : links_[i] = link}) - 1
    ELSE 0

\* mutant of IndexOf: the search keeps the last entry equal to link
IndexOfLast(link) ==
    IF \E i \in DOMAIN links_ : links_[i] = link
    THEN SetMax({i \in DOMAIN links_ : links_[i] = link}) - 1
    ELSE -1

\* The index of the first entry equal to link, -1 if there is none
\* (remove, lines 92-98).
IndexOf(link) ==
    IF \E i \in DOMAIN links_ : links_[i] = link
    THEN SetMin({i \in DOMAIN links_ : links_[i] = link}) - 1
    ELSE -1

\* links_.erase(links_.begin() + index)
Erase(ls, index) == [i \in 1..(Len(ls) - 1) |-> IF i <= index THEN ls[i] ELSE ls[i + 1]]

\* mutant of remove: the count is kept when the entry at index U is erased
removeStrictBoundary(link) ==
    LET index == IndexOf(link)
    IN  /\ ~crashed
        /\ IF index >= 0
           THEN /\ numUpwardConnections' =
                       (IF index < numUpwardConnections THEN numUpwardConnections - 1
                        ELSE numUpwardConnections)
                /\ links_' = Erase(links_, index)
                /\ op' = [name |-> "remove", link |-> link, result |-> TRUE]
           ELSE /\ UNCHANGED <<links_, numUpwardConnections>>
                /\ op' = [name |-> "remove", link |-> link, result |-> FALSE]
        /\ written' = <<>>
        /\ read' = <<>>
        /\ UNCHANGED <<graph, joint, cart, crashed, calls>>

\* LinkTraverse::remove(link)
remove(link) ==
    LET index == IndexOf(link)
    IN  /\ ~crashed
        /\ IF index >= 0
           THEN /\ numUpwardConnections' =
                       (IF index <= numUpwardConnections THEN numUpwardConnections - 1
                        ELSE numUpwardConnections)
                /\ links_' = Erase(links_, index)
                /\ op' = [name |-> "remove", link |-> link, result |-> TRUE]
           ELSE /\ UNCHANGED <<links_, numUpwardConnections>>
                /\ op' = [name |-> "remove", link |-> link, result |-> FALSE]
        /\ written' = <<>>
        /\ read' = <<>>
        /\ UNCHANGED <<graph, joint, cart, crashed, calls>>

\* What findRootAdjacentLink returns: the link found (Null: none) and the
\* value it leaves in the reference parameter isUpward.
Found(link, isUpward) == [found |-> link, isUpward |-> isUpward, entered |-> <<>>]

\* The search result r of a call that entered the links of before ahead of
\* the links r was found through; entered lists the links the calls of
\* findRootAdjacentLink were made on, in the order of the calls.
Entered(r, before) == [r EXCEPT !.entered = before \o @]

RECURSIVE findRootAdjacentLink(_, _, _, _)
RECURSIVE findAmongChildren(_, _, _, _)

\* mutant of findAmongChildren: the loop gives up after the first child searched
findAmongChildrenFirstOnly(c, link, prev, root) ==
    IF c = Null THEN Found(Null, FALSE)
    ELSE IF c = prev THEN findAmongChildren(sibling[c], link, prev, root)
    ELSE findRootAdjacentLink(c, link, root, FALSE)

\* mutant of findAmongChildren: the link arrived from is searched as well
findAmongChildrenNoPrev(c, link, prev, root) ==
    IF c = Null THEN Found(Null, FALSE)
    ELSE LET r == findRootAdjacentLink(c, link, root, FALSE)
         IN  IF r.found # Null THEN r
             ELSE Entered(findAmongChildren(sibling[c], link, prev, root), r.entered)

\* findRootAdjacentLink, lines 142-151: isUpward = false, then the loop over
\* the children of link other than prev, from child c on.
findAmongChildren(c, link, prev, root) ==
    IF c = Null THEN Found(Null, FALSE)
    ELSE IF c = prev THEN findAmongChildren(sibling[c], link, prev, root)
    ELSE LET r == findRootAdjacentLink(c, link, root, FALSE)
         IN  IF r.found # Null THEN r
             ELSE Entered(findAmongChildren(sibling[c], link, prev, root), r.entered)

\* LinkTraverse::findRootAdjacentLink(link, prev, root, isUpward)
findRootAdjacentLink(link, prev, root, isUpward) ==
    IF link = root THEN Entered(Found(prev, isUpward), <<link>>)
    ELSE LET par == parent[link]
             up == IF isUpward /\ par # Null /\ par # prev
                   THEN findRootAdjacentLink(par, link, root, isUpward)
                   ELSE Found(Null, isUpward)
         IN  IF up.found # Null THEN Entered(up, <<link>>)
             ELSE Entered(findAmongChildren(child[link], link, prev, root),
                          <<link>> \o up.entered)

\* mutant of CountAfterPrepend: the count grows whichever edge was found
CountAfterPrependAlways(n, isUpward) == n + 1

\* mutant of CountAfterNull: the count grows although nothing was found
CountAfterNullGrows(n) == n + 1

\* prependRootAdjacentLinkToward, lines 119-121: if(isUpward) ++numUpwardConnections
CountAfterPrepend(n, isUpward) == IF isUpward THEN n + 1 ELSE n

\* prependRootAdjacentLinkToward, lines 117, 124: no link found, nothing is counted
CountAfterNull(n) == n

\* links_.insert(links_.begin(), link)
InsertFront(ls, link) == <<link>> \o ls

\* LinkTraverse::prependRootAdjacentLinkToward(link)
prependRootAdjacentLinkToward(link) ==
    LET r == IF links_ # <<>>
             THEN findRootAdjacentLink(link, Null, Head(links_), TRUE)
             ELSE Found(Null, TRUE)
    IN  /\ ~crashed
        /\ IF r.found # Null
           THEN /\ links_' = InsertFront(links_, r.found)
                /\ numUpwardConnections' =
                       CountAfterPrepend(numUpwardConnections, r.isUpward)
           ELSE /\ links_' = links_
                /\ numUpwardConnections' = CountAfterNull(numUpwardConnections)
        /\ op' = [name |-> "prependRootAdjacentLinkToward", link |-> link,
                  result |-> r.found, entered |-> r.entered]
        /\ written' = <<>>
        /\ read' = <<>>
        /\ UNCHANGED <<graph, joint, cart, crashed, calls>>

\* ------------------------------------------ the forward kinematics evaluator
\* c with field f of link l assigned: link->f() = val
Set(c, l, f, val) == [c EXCEPT ![l][f] = val]

\* A * B evaluated coefficient by coefficient, column by column, into the
\* storage of A: what dest.noalias() = A * B may compute when dest is A.
InPlaceProduct(A, B) ==
    LET n1 == [i \in 1..3 |-> A[i][1] * B[1][1] + A[i][2] * B[2][1] + A[i][3] * B[3][1]]
        n2 == [i \in 1..3 |-> n1[i] * B[1][2] + A[i][2] * B[2][2] + A[i][3] * B[3][2]]
        n3 == [i \in 1..3 |-> n1[i] * B[1][3] + n2[i] * B[2][3] + A[i][3] * B[3][3]]
    IN  << <<n1[1], n2[1], n3[1]>>, <<n1[2], n2[2], n3[2]>>, <<n1[3], n2[3], n3[3]>> >>

\* dest.noalias() = A * B: the product, unless dest is A and the build
\* evaluates the product in place.
NoaliasProduct(A, B, aliased, inPlace) ==
    IF aliased /\ inPlace THEN InPlaceProduct(A, B) ELSE MatMul(A, B)

\* mutant of Requested: the acceleration is computed whenever it is asked for
RequestedAccelerationAlone(pose, vel, acc, calcVelocity, calcAcceleration) ==
    IF calcAcceleration THEN acc ELSE IF calcVelocity THEN vel ELSE pose

\* The statements run for the flags: the pose always, the velocity under
\* calcVelocity, the acceleration under calcVelocity and calcAcceleration.
Requested(pose, vel, acc, calcVelocity, calcAcceleration) ==
    IF ~calcVelocity THEN pose ELSE IF ~calcAcceleration THEN vel ELSE acc

\* mutant of upwardRotationalPose: the joint rotation is not inverted
upwardRotationalPoseNotInverted(c, link, ch) ==
    LET j == joint[ch]
        c1 == Set(c, link, "R",
                  MatMul(MatMul(c[ch].R, AngleAxisd(j.q, j.a)), Transpose(j.Rb)))
        arm == MatVec(c1[link].R, j.b)
    IN  [cart |-> Set(c1, link, "p", VSub(c1[ch].p, arm)), arm |-> arm]

\* upward pass, case Link::ROTATIONAL_JOINT: R, arm and p (lines 167-169)
upwardRotationalPose(c, link, ch) ==
    LET j == joint[ch]
        c1 == Set(c, link, "R",
                  MatMul(MatMul(c[ch].R, AngleAxisdInverse(j.q, j.a)), Transpose(j.Rb)))
        arm == MatVec(c1[link].R, j.b)
    IN  [cart |-> Set(c1, link, "p", VSub(c1[ch].p, arm)), arm |-> arm]

\* the same case: sw, w and v (lines 172-174)
upwardRotationalVelocity(f, link, ch) ==
    LET j == joint[ch]
        sw == MatVec(f.cart[link].R, MatVec(j.Rb, j.a))
        c3 == Set(f.cart, link, "w", VSub(f.cart[ch].w, VScale(j.dq, sw)))
    IN  [cart |-> Set(c3, link, "v", VSub(c3[ch].v, Cross(c3[link].w, f.arm))),
         arm |-> f.arm, sw |-> sw]

\* the same case: dw and dv (lines 177-178)
upwardRotationalAcceleration(f, link, ch) ==
    LET j == joint[ch]
        c5 == Set(f.cart, link, "dw",
                  VSub(VSub(f.cart[ch].dw, VScale(j.dq, Cross(f.cart[link].w, f.sw))),
                       VScale(j.ddq, f.sw)))
    IN  [cart |-> Set(c5, link, "dv",
                      VSub(VSub(c5[ch].dv, Cross(c5[link].w, Cross(c5[link].w, f.arm))),
                           Cross(c5[link].dw, f.arm))),
         arm |-> f.arm, sw |-> f.sw]

\* upward pass, case Link::ROTATIONAL_JOINT (lines 166-181)
upwardRotational(c, link, ch, calcVelocity, calcAcceleration) ==
    LET pose == upwardRotationalPose(c, link, ch)
        vel == upwardRotationalVelocity(pose, link, ch)
        acc == upwardRotationalAcceleration(vel, link, ch)
    IN  Requested(pose, vel, acc, calcVelocity, calcAcceleration).cart

\* upward pass, case Link::SLIDE_JOINT: R, arm and p (lines 184-186)
upwardSlidePose(c, link, ch, inPlace) ==
    LET j == joint[ch]
        c1 == Set(c, link, "R",
                  NoaliasProduct(c[ch].R, Transpose(j.Rb), link = ch, inPlace))
        arm == MatVec(c1[link].R, VAdd(j.b, MatVec(j.Rb, VScale(j.q, j.d))))
    IN  [cart |-> Set(c1, link, "p", VSub(c1[ch].p, arm)), arm |-> arm]

\* the same case: sv, w and v (lines 189-191)
upwardSlideVelocity(f, link, ch) ==
    LET j == joint[ch]
        sv == MatVec(f.cart[link].R, MatVec(j.Rb, j.d))
        c3 == Set(f.cart, link, "w", f.cart[ch].w)
    IN  [cart |-> Set(c3, link, "v", VSub(c3[ch].v, VScale(j.dq, sv))),
         arm |-> f.arm, sv |-> sv]

\* the same case: dw and dv (lines 194-197)
upwardSlideAcceleration(f, link, ch) ==
    LET j == joint[ch]
        c5 == Set(f.cart, link, "dw", f.cart[ch].dw)
    IN  [cart |-> Set(c5, link, "dv",
                      VSub(VSub(VSub(VSub(c5[ch].dv,
                                          Cross(c5[ch].w, Cross(c5[ch].w, f.arm))),
                                     Cross(c5[ch].dw, f.arm)),
                                VScale(2 * j.dq, Cross(c5[ch].w, f.sv))),
                           VScale(j.ddq, f.sv))),
         arm |-> f.arm, sv |-> f.sv]

\* upward pass, case Link::SLIDE_JOINT (lines 183-200)
upwardSlide(c, link, ch, calcVelocity, calcAcceleration, inPlace) ==
    LET pose == upwardSlidePose(c, link, ch, inPlace)
        vel == upwardSlideVelocity(pose, link, ch)
        acc == upwardSlideAcceleration(vel, link, ch)
    IN  Requested(pose, vel, acc, calcVelocity, calcAcceleration).cart

\* upward pass, case Link::FIXED_JOINT and default: R, arm and p (lines 204-206)
upwardFixedPose(c, link, ch, inPlace) ==
    LET j == joint[ch]
        c1 == Set(c, link, "R",
                  NoaliasProduct(c[ch].R, Transpose(j.Rb), link = ch, inPlace))
        arm == MatVec(c1[link].R, j.b)
    IN  [cart |-> Set(c1, link, "p", VSub(c1[ch].p, arm)), arm |-> arm]

\* the same case: w and v (lines 209-210)
upwardFixedVelocity(f, link, ch) ==
    LET c3 == Set(f.cart, link, "w", f.cart[ch].w)
    IN  [cart |-> Set(c3, link, "v", VSub(c3[ch].v, Cross(c3[link].w, f.arm))),
         arm |-> f.arm]

\* the same case: dw and dv (lines 213-214)
upwardFixedAcceleration(f, link, ch) ==
    LET c5 == Set(f.cart, link, "dw", f.cart[ch].dw)
    IN  [cart |-> Set(c5, link, "dv",
                      VSub(VSub(c5[ch].dv, Cross(c5[ch].w, Cross(c5[ch].w, f.arm))),
                           Cross(c5[ch].dw, f.arm))),
         arm |-> f.arm]

\* upward pass, case Link::FIXED_JOINT and default (lines 202-217)
upwardFixed(c, link, ch, calcVelocity, calcAcceleration, inPlace) ==
    LET pose == upwardFixedPose(c, link, ch, inPlace)
        vel == upwardFixedVelocity(pose, link, ch)
        acc == upwardFixedAcceleration(vel, link, ch)
    IN  Requested(pose, vel, acc, calcVelocity, calcAcceleration).cart

\* One iteration of the upward loop (lines 161-218): links_[i] from links_[i-1],
\* by the joint type of the child.
upwardStep(c, link, ch, calcVelocity, calcAcceleration, inPlace) ==
    CASE joint[ch].jointType = "ROTATIONAL_JOINT" ->
             upwardRotational(c, link, ch, calcVelocity, calcAcceleration)
      [] joint[ch].jointType = "SLIDE_JOINT" ->
             upwardSlide(c, link, ch, calcVelocity, calcAcceleration, inPlace)
      [] OTHER ->
             upwardFixed(c, link, ch, calcVelocity, calcAcceleration, inPlace)

\* mutant of downwardRotationalPose: the offset b is taken in the link's own frame
downwardRotationalPoseArmInLinkFrame(c, link, par) ==
    LET j == joint[link]
        c1 == Set(c, link, "R", MatMul(MatMul(c[par].R, j.Rb), AngleAxisd(j.q, j.a)))
        arm == MatVec(c1[link].R, j.b)
    IN  [cart |-> Set(c1, link, "p", VAdd(c1[par].p, arm)), arm |-> arm]

\* mutant of downwardRotationalPose: the body-fixed rotation Rb is left out
downwardRotationalPoseNoRb(c, link, par) ==
    LET j == joint[link]
        c1 == Set(c, link, "R", MatMul(c[par].R, AngleAxisd(j.q, j.a)))
        arm == MatVec(c1[par].R, j.b)
    IN  [cart |-> Set(c1, link, "p", VAdd(c1[par].p, arm)), arm |-> arm]

\* downward pass, case Link::ROTATIONAL_JOINT: R, arm and p (lines 230-232)
downwardRotationalPose(c, link, par) ==
    LET j == joint[link]
        c1 == Set(c, link, "R", MatMul(MatMul(c[par].R, j.Rb), AngleAxisd(j.q, j.a)))
        arm == MatVec(c1[par].R, j.b)
    IN  [cart |-> Set(c1, link, "p", VAdd(c1[par].p, arm)), arm |-> arm]

\* the same case: sw, w and v (lines 235-237)
downwardRotationalVelocity(f, link, par) ==
    LET j == joint[link]
        sw == MatVec(f.cart[par].R, MatVec(j.Rb, j.a))
        c3 == Set(f.cart, link, "w", VAdd(f.cart[par].w, VScale(j.dq, sw)))
    IN  [cart |-> Set(c3, link, "v", VAdd(c3[par].v, Cross(c3[par].w, f.arm))),
         arm |-> f.arm, sw |-> sw]

\* the same case: dw and dv (lines 240-241)
downwardRotationalAcceleration(f, link, par) ==
    LET j == joint[link]
        c5 == Set(f.cart, link, "dw",
                  VAdd(VAdd(f.cart[par].dw, VScale(j.dq, Cross(f.cart[par].w, f.sw))),
                       VScale(j.ddq, f.sw)))
    IN  [cart |-> Set(c5, link, "dv",
                      VAdd(VAdd(c5[par].dv, Cross(c5[par].w, Cross(c5[par].w, f.arm))),
                           Cross(c5[par].dw, f.arm))),
         arm |-> f.arm, sw |-> f.sw]

\* downward pass, case Link::ROTATIONAL_JOINT (lines 229-244)
downwardRotational(c, link, par, calcVelocity, calcAcceleration) ==
    LET pose == downwardRotationalPose(c, link, par)
        vel == downwardRotationalVelocity(pose, link, par)
        acc == downwardRotationalAcceleration(vel, link, par)
    IN  Requested(pose, vel, acc, calcVelocity, calcAcceleration).cart

\* downward pass, case Link::SLIDE_JOINT: R, arm and p (lines 247-249)
downwardSlidePose(c, link, par, inPlace) ==
    LET j == joint[link]
        c1 == Set(c, link, "R", NoaliasProduct(c[par].R, j.Rb, link = par, inPlace))
        arm == MatVec(c1[par].R, VAdd(j.b, MatVec(j.Rb, VScale(j.q, j.d))))
    IN  [cart |-> Set(c1, link, "p", VAdd(c1[par].p, arm)), arm |-> arm]

\* mutant of downwardSlideVelocity: the linear velocity also carries the arm
\* transport term
downwardSlideVelocityArmTransport(f, link, par) ==
    LET j == joint[link]
        sv == MatVec(f.cart[par].R, MatVec(j.Rb, j.d))
        c3 == Set(f.cart, link, "w", f.cart[par].w)
    IN  [cart |-> Set(c3, link, "v",
                      VAdd(VAdd(c3[par].v, Cross(c3[par].w, f.arm)), VScale(j.dq, sv))),
         arm |-> f.arm, sv |-> sv]

\* the same case: sv, w and v (lines 252-254)
downwardSlideVelocity(f, link, par) ==
    LET j == joint[link]
        sv == MatVec(f.cart[par].R, MatVec(j.Rb, j.d))
        c3 == Set(f.cart, link, "w", f.cart[par].w)
    IN  [cart |-> Set(c3, link, "v", VAdd(c3[par].v, VScale(j.dq, sv))),
         arm |-> f.arm, sv |-> sv]

\* the same case: dw and dv (lines 257-259)
downwardSlideAcceleration(f, link, par) ==
    LET j == joint[link]
        c5 == Set(f.cart, link, "dw", f.cart[par].dw)
    IN  [cart |-> Set(c5, link, "dv",
                      VAdd(VAdd(VAdd(VAdd(c5[par].dv,
                                          Cross(c5[par].w, Cross(c5[par].w, f.arm))),
                                     Cross(c5[par].dw, f.arm)),
                                VScale(2 * j.dq, Cross(c5[par].w, f.sv))),
                           VScale(j.ddq, f.sv))),
         arm |-> f.arm, sv |-> f.sv]

\* downward pass, case Link::SLIDE_JOINT (lines 246-262)
downwardSlide(c, link, par, calcVelocity, calcAcceleration, inPlace) ==
    LET pose == downwardSlidePose(c, link, par, inPlace)
        vel == downwardSlideVelocity(pose, link, par)
        acc == downwardSlideAcceleration(vel, link, par)
    IN  Requested(pose, vel, acc, calcVelocity, calcAcceleration).cart

\* mutant of downwardFixedPose: the position is added to the one the link holds
downwardFixedPoseAccumulates(c, link, par, inPlace) ==
    LET j == joint[link]
        c1 == Set(c, link, "R", NoaliasProduct(c[par].R, j.Rb, link = par, inPlace))
        arm == MatVec(c1[par].R, j.b)
    IN  [cart |-> Set(c1, link, "p", VAdd(c1[link].p, VAdd(c1[par].p, arm))), arm |-> arm]

\* downward pass, case Link::FIXED_JOINT and default: R, arm and p (lines 266-268)
downwardFixedPose(c, link, par, inPlace) ==
    LET j == joint[link]
        c1 == Set(c, link, "R", NoaliasProduct(c[par].R, j.Rb, link = par, inPlace))
        arm == MatVec(c1[par].R, j.b)
    IN  [cart |-> Set(c1, link, "p", VAdd(c1[par].p, arm)), arm |-> arm]

\* the same case: w and v (lines 271-272)
downwardFixedVelocity(f, link, par) ==
    LET c3 == Set(f.cart, link, "w", f.cart[par].w)
    IN  [cart |-> Set(c3, link, "v", VAdd(c3[par].v, Cross(c3[par].w, f.arm))),
         arm |-> f.arm]

\* the same case: dw and dv (lines 275-277)
downwardFixedAcceleration(f, link, par) ==
    LET c5 == Set(f.cart, link, "dw", f.cart[par].dw)
    IN  [cart |-> Set(c5, link, "dv",
                      VAdd(VAdd(c5[par].dv, Cross(c5[par].w, Cross(c5[par].w, f.arm))),
                           Cross(c5[par].dw, f.arm))),
         arm |-> f.arm]

\* downward pass, case Link::FIXED_JOINT and default (lines 264-280)
downwardFixed(c, link, par, calcVelocity, calcAcceleration, inPlace) ==
    LET pose == downwardFixedPose(c, link, par, inPlace)
        vel == downwardFixedVelocity(pose, link, par)
        acc == downwardFixedAcceleration(vel, link, par)
    IN  Requested(pose, vel, acc, calcVelocity, calcAcceleration).cart

\* mutant of downwardStep: the switch has no default, a link of another joint
\* type is left as it is
downwardStepNoDefault(c, link, par, calcVelocity, calcAcceleration, inPlace) ==
    CASE joint[link].jointType = "ROTATIONAL_JOINT" ->
             downwardRotational(c, link, par, calcVelocity, calcAcceleration)
      [] joint[link].jointType = "SLIDE_JOINT" ->
             downwardSlide(c, link, par, calcVelocity, calcAcceleration, inPlace)
      [] joint[link].jointType = "FIXED_JOINT" ->
             downwardFixed(c, link, par, calcVelocity, calcAcceleration, inPlace)
      [] OTHER -> c

\* One iteration of the downward loop (lines 224-281): link from link->parent(),
\* by the joint type of the link.
downwardStep(c, link, par, calcVelocity, calcAcceleration, inPlace) ==
    CASE joint[link].jointType = "ROTATIONAL_JOINT" ->
             downwardRotational(c, link, par, calcVelocity, calcAcceleration)
      [] joint[link].jointType = "SLIDE_JOINT" ->
             downwardSlide(c, link, par, calcVelocity, calcAcceleration, inPlace)
      [] OTHER ->
             downwardFixed(c, link, par, calcVelocity, calcAcceleration, inPlace)

\* What a call has done so far: the links' state, the links written, the
\* links each write was computed from (the child, the parent), and
\* whether it was stopped by a read through an invalid pointer.
Call(c, ws, rs, stopped) ==
    [cart |-> c, written |-> ws, read |-> rs, crashed |-> stopped]

\* links_[i]; an index outside the sequence reads whatever lies behind the
\* vector's elements: junk.link, any link or no readable link at all.
Entry(i, junk) == IF i < Len(links_) THEN links_[i + 1] ELSE junk.link

\* link->parent() as the downward loop dereferences it; a null parent reads
\* what the build finds there: junk.link.
ParentRead(link, junk) == IF parent[link] # Null THEN parent[link] ELSE junk.link

RECURSIVE upwardPass(_, _, _, _, _)
RECURSIVE downwardPass(_, _, _, _, _)

\* mutant of upwardPass: the child is taken from the entry behind the link
upwardPassChildAhead(k, i, calcVelocity, calcAcceleration, junk) ==
    IF i > numUpwardConnections \/ k.crashed THEN k
    ELSE LET link == Entry(i, junk)
             ch == Entry(i + 1, junk)
         IN  IF link = Null \/ ch = Null
             THEN Call(k.cart, k.written, k.read, TRUE)
             ELSE upwardPass(
                      Call(upwardStep(k.cart, link, ch, calcVelocity, calcAcceleration,
                                      junk.inPlace),
                           Append(k.written, link), Append(k.read, ch), FALSE),
                      i + 1, calcVelocity, calcAcceleration, junk)

\* The upward loop (lines 159-219) from index i on.
upwardPass(k, i, calcVelocity, calcAcceleration, junk) ==
    IF i > numUpwardConnections \/ k.crashed THEN k
    ELSE LET link == Entry(i, junk)
             ch == Entry(i - 1, junk)
         IN  IF link = Null \/ ch = Null
             THEN Call(k.cart, k.written, k.read, TRUE)
             ELSE upwardPass(
                      Call(upwardStep(k.cart, link, ch, calcVelocity, calcAcceleration,
                                      junk.inPlace),
                           Append(k.written, link), Append(k.read, ch), FALSE),
                      i + 1, calcVelocity, calcAcceleration, junk)

\* The downward loop (lines 221-282) from index i on.
downwardPass(k, i, calcVelocity, calcAcceleration, junk) ==
    IF i >= Len(links_) \/ k.crashed THEN k
    ELSE LET link == links_[i + 1]
             par == ParentRead(link, junk)
         IN  IF par = Null
             THEN Call(k.cart, k.written, k.read, TRUE)
             ELSE downwardPass(
                      Call(downwardStep(k.cart, link, par, calcVelocity, calcAcceleration,
                                        junk.inPlace),
                           Append(k.written, link), Append(k.read, par), FALSE),
                      i + 1, calcVelocity, calcAcceleration, junk)

\* The index the upward loop starts at (line 159: i = 1).
FirstIndex == 1

\* mutant of DownwardStart: the downward loop starts at the front of the sequence
DownwardStartAtFront == FirstIndex - 1

\* The index the upward loop leaves in i, where the downward loop goes on.
DownwardStart == IF numUpwardConnections >= FirstIndex THEN numUpwardConnections + 1
                 ELSE FirstIndex

\* LinkTraverse::calcForwardKinematics as a function of the links' state.
calcResult(calcVelocity, calcAcceleration, junk) ==
    downwardPass(
        upwardPass(Call(cart, <<>>, <<>>, FALSE), FirstIndex, calcVelocity, calcAcceleration, junk),
        DownwardStart, calcVelocity, calcAcceleration, junk)

\* Every pointer the call reads is valid: the upward indices lie in the
\* sequence and every downward entry has a parent.
PointersValid ==
    /\ numUpwardConnections < FirstIndex \/ numUpwardConnections < Len(links_)
    /\ \A i \in DownwardStart..(Len(links_) - 1) : parent[links_[i + 1]] # Null

\* No upward entry is computed from itself.
NoAliasedProduct ==
    \A i \in FirstIndex..numUpwardConnections :
        i < Len(links_) => links_[i + 1] # links_[i]

\* The outcomes of undefined reads: the link an invalid pointer happens to
\* designate (Null: none, the call is stopped) and whether an aliased product
\* is evaluated in place.
JunkChoices ==
    [link : IF PointersValid THEN {Null} ELSE Links \cup {Null},
     inPlace : IF PointersValid /\ NoAliasedProduct THEN {FALSE} ELSE BOOLEAN]

\* The call comes behind a call with the same flags, with no other operation
\* between the two.
Repeats(calcVelocity, calcAcceleration) ==
    /\ op.name = "calcForwardKinematics"
    /\ op.calcVelocity = calcVelocity
    /\ op.calcAcceleration = calcAcceleration

\* LinkTraverse::calcForwardKinematics(calcVelocity, calcAcceleration)
calcForwardKinematics(calcVelocity, calcAcceleration) ==
    \E junk \in JunkChoices :
        LET k == calcResult(calcVelocity, calcAcceleration, junk)
        IN  /\ ~crashed
            /\ cart' = k.cart
            /\ written' = k.written
            /\ read' = k.read
            /\ crashed' = k.crashed
            /\ op' = [name |-> "calcForwardKinematics", calcVelocity |-> calcVelocity,
                      calcAcceleration |-> calcAcceleration,
                      repeats |-> Repeats(calcVelocity, calcAcceleration)]
            /\ UNCHANGED <<graph, joint, links_, numUpwardConnections, calls>>

\* ----------------------------------------- specification of the evaluator
RotX == AngleAxisd(1, <<1, 0, 0>>)

RotZ == AngleAxisd(1, <<0, 0, 1>>)

\* The joints of a mechanism come in three variants; the joint of a link is
\* the variant's joint of the link's type.
\*   moving:   an offset, a turned joint frame, q = 1, joint velocity and acceleration
\*   resting:  the same joint with dq = ddq = 0, and q = 0 on the odd links
\*   scenario: the revolute joint of the spec's scenario (axis z, a quarter
\*             turn, b = (1,0,0), Rb = Identity); no offset for the fixed types
MovingJoint(type) ==
    [jointType |-> type, q |-> 1, dq |-> 2, ddq |-> 3,
     a |-> <<0, 0, 1>>, d |-> <<0, 1, 0>>, b |-> <<1, 2, 0>>, Rb |-> RotX]

RestingJoint(type, l) == [MovingJoint(type) EXCEPT !.q = (l + 1) % 2, !.dq = 0, !.ddq = 0]

ScenarioJoint(type) ==
    [jointType |-> type, q |-> 1, dq |-> 0, ddq |-> 0,
     a |-> <<0, 0, 1>>, d |-> <<0, 0, 1>>,
     b |-> IF type \in {"ROTATIONAL_JOINT", "SLIDE_JOINT"} THEN <<1, 0, 0>> ELSE Zero3,
     Rb |-> Identity3]

\* FREE_JOINT stands for the joint types the switch has no case for.
JointTypes == {"ROTATIONAL_JOINT", "SLIDE_JOINT", "FIXED_JOINT", "FREE_JOINT"}

JointVariants == {"moving", "resting", "scenario"}

JointOf(type, variant, l) ==
    CASE variant = "moving" -> MovingJoint(type)
      [] variant = "resting" -> RestingJoint(type, l)
      [] OTHER -> ScenarioJoint(type)

\* The joint of a link without a parent is never read: it is a fixed joint.
\* Joints without a case of their own are explored in the moving variant.
JointMaps(par) ==
    {[l \in DOMAIN par |->
         IF par[l] = Null THEN FixedJoint ELSE JointOf(tv[1][l], tv[2], l)] :
        tv \in {x \in [DOMAIN par -> JointTypes] \X JointVariants :
                   (\E l \in DOMAIN par : x[1][l] = "FREE_JOINT") => x[2] = "moving"}}

\* The links' Cartesian state before the first call: all at rest at the
\* origin, or every link in a state of its own.
MovingState(l) ==
    [R |-> IF l % 2 = 1 THEN RotZ ELSE RotX, p |-> <<l, 2, 3>>, w |-> <<1, l, 2>>,
     v |-> <<l, 1, 1>>, dw |-> <<2, 1, l>>, dv |-> <<1, l, 1>>]

CartMaps(n) == {[l \in 1..n |-> AtOrigin], [l \in 1..n |-> MovingState(l)]}

\* LinkTraverse::LinkTraverse(root, doUpward, doDownward): find on the new object
BuildConstructed ==
    \E root \in Links, doUpward \in BOOLEAN, doDownward \in BOOLEAN :
        LET t == findResult(root, doUpward, doDownward)
        IN  /\ links_ = t.links_
            /\ numUpwardConnections = t.numUpwardConnections
            /\ op = [name |-> "find", link |-> root, doUpward |-> doUpward,
                     doDownward |-> doDownward, before |-> EmptyTraversal]
            /\ written = <<>>
            /\ read = <<>>
            /\ crashed = FALSE
            /\ calls = <<>>

\* A mechanism of FKLinks links in any tree shape, its traversal built by the
\* constructor from any reference link, then propagated any number of times.
InitFK ==
    /\ parent \in ParentMaps(FKLinks)
    /\ child = [l \in 1..FKLinks |-> FirstChild(parent, l)]
    /\ sibling = [l \in 1..FKLinks |-> NextSibling(parent, l)]
    /\ body = [l \in 1..FKLinks |-> 1]
    /\ joint \in JointMaps(parent)
    /\ cart \in CartMaps(FKLinks)
    /\ BuildConstructed

NextFK ==
    \E calcVelocity \in BOOLEAN, calcAcceleration \in BOOLEAN :
        calcForwardKinematics(calcVelocity, calcAcceleration)

SpecFK == InitFK /\ [][NextFK]_vars

\* ------------------------------------------ specification of the whole class
\* A mechanism of FKLinks links in any forest shape with moving joints of every
\* type, every link in a state of its own.  A default-constructed traversal is
\* built and edited in any order, up to MaxLen entries, and then propagated.
JointOfLink(par, l) ==
    IF par[l] = Null THEN FixedJoint
    ELSE MovingJoint(CASE l % 3 = 0 -> "ROTATIONAL_JOINT"
                       [] l % 3 = 1 -> "SLIDE_JOINT"
                       [] OTHER -> "FIXED_JOINT")

Init ==
    /\ parent \in ParentMaps(FKLinks)
    /\ child = [l \in 1..FKLinks |-> FirstChild(parent, l)]
    /\ sibling = [l \in 1..FKLinks |-> NextSibling(parent, l)]
    /\ body = [l \in 1..FKLinks |-> 1]
    /\ joint = [l \in 1..FKLinks |-> JointOfLink(parent, l)]
    /\ cart = [l \in 1..FKLinks |-> MovingState(l)]
    /\ DefaultConstructed

\* The traversal has not been propagated yet.
Editing == op.name # "calcForwardKinematics"

Next ==
    /\ Editing
    /\ \/ \E root \in Links, doUpward \in BOOLEAN, doDownward \in BOOLEAN :
              find(root, doUpward, doDownward)
       \/ \E link \in Links, isDownward \in BOOLEAN :
              Len(links_) < MaxLen /\ append(link, isDownward)
       \/ \E link \in Links : remove(link)
       \/ \E link \in Links :
              Len(links_) < MaxLen /\ prependRootAdjacentLinkToward(link)
       \/ clear
       \/ \E calcVelocity \in BOOLEAN, calcAcceleration \in BOOLEAN :
              calcForwardKinematics(calcVelocity, calcAcceleration)

Spec == Init /\ [][Next]_vars

\* ------------------------------------- specification of the editing operations
\* The same mechanisms and the same default-constructed traversal, built and
\* edited in any order, up to MaxLen entries, and never propagated.
NextEdit ==
    \/ \E root \in Links, doUpward \in BOOLEAN, doDownward \in BOOLEAN :
           find(root, doUpward, doDownward)
    \/ \E link \in Links, isDownward \in BOOLEAN :
           Len(links_) < MaxLen /\ append(link, isDownward)
    \/ \E link \in Links : remove(link)
    \/ \E link \in Links :
           Len(links_) < MaxLen /\ prependRootAdjacentLinkToward(link)
    \/ clear

SpecEdit == Init /\ [][NextEdit]_vars

\* ------------------------------------------ specification of the constructors
\* The values an int member that no constructor code assigns can hold.
IndeterminateInt == {-1, 0, 1, 2}

\* LinkTraverse::LinkTraverse(), lines 13-16
constructDefault ==
    /\ links_' = <<>>
    /\ numUpwardConnections' = 0
    /\ op' = [name |-> "LinkTraverse"]
    /\ written' = <<>>
    /\ read' = <<>>
    /\ UNCHANGED <<graph, joint, cart, crashed, calls>>

\* LinkTraverse::LinkTraverse(int size), lines 19-23: links_(size) is cleared,
\* numUpwardConnections is not assigned.
constructSized(size) ==
    /\ links_' = SubSeq([i \in 1..size |-> Null], 1, 0)
    /\ numUpwardConnections' \in IndeterminateInt
    /\ op' = [name |-> "LinkTraverse(size)", size |-> size]
    /\ written' = <<>>
    /\ read' = <<>>
    /\ UNCHANGED <<graph, joint, cart, crashed, calls>>

\* LinkTraverse::LinkTraverse(root, doUpward, doDownward), lines 26-29: find on
\* the new object, whose members no code has assigned before.
constructBuilt(root, doUpward, doDownward) ==
    \E n \in IndeterminateInt :
        LET t == traverse(Cleared(Traversal(<<>>, n)), root, doUpward, doDownward,
                          FALSE, Null)
        IN  /\ links_' = t.links_
            /\ numUpwardConnections' = t.numUpwardConnections
            /\ op' = [name |-> "LinkTraverse(root, doUpward, doDownward)",
                      link |-> root, doUpward |-> doUpward, doDownward |-> doDownward]
            /\ written' = <<>>
            /\ read' = <<>>
            /\ UNCHANGED <<graph, joint, cart, crashed, calls>>

\* LinkTraverse::LinkTraverse(const LinkTraverse& org), lines 32-37; org is
\* the traversal at hand.
constructCopy ==
    /\ links_' = links_
    /\ numUpwardConnections' = numUpwardConnections
    /\ op' = [name |-> "LinkTraverse(org)",
              org |-> Traversal(links_, numUpwardConnections)]
    /\ written' = <<>>
    /\ read' = <<>>
    /\ UNCHANGED <<graph, joint, cart, crashed, calls>>

\* A traversal is constructed by any constructor, edited, and constructed anew.
NextCtor ==
    \/ constructDefault
    \/ \E size \in 0..MaxLen : constructSized(size)
    \/ \E root \in Links, doUpward \in BOOLEAN, doDownward \in BOOLEAN :
           constructBuilt(root, doUpward, doDownward)
    \/ constructCopy
    \/ \E link \in Links, isDownward \in BOOLEAN :
           Len(links_) < MaxLen /\ append(link, isDownward)
    \/ \E link \in Links : remove(link)

SpecCtor == Init /\ [][NextCtor]_vars

\* ------------------------------------ specification of unserialised calls
\* Two calcForwardKinematics calls run on two threads, each on a traversal of
\* its own, built in both directions from a reference link of its own, over
\* the links of one mechanism.  The class holds no lock: the iterations of the
\* two loops interleave in any order.  An iteration is taken as one step.

\* A call on the traversal t with its flags, about to run iteration FirstIndex.
StartedCall(t, calcVelocity, calcAcceleration) ==
    [links_ |-> t.links_, numUpwardConnections |-> t.numUpwardConnections,
     calcVelocity |-> calcVelocity, calcAcceleration |-> calcAcceleration,
     i |-> FirstIndex]

\* The call has iterations left.
Running(k) == k.i < Len(k.links_)

\* The call has run an iteration and has iterations left.
MidCall(k) == k.i > FirstIndex /\ Running(k)

\* The iteration i of the call k on the links' state c: the upward loop body
\* up to numUpwardConnections, the downward loop body behind it.
iteration(c, k) ==
    IF k.i <= k.numUpwardConnections
    THEN upwardStep(c, k.links_[k.i + 1], k.links_[k.i], k.calcVelocity,
                    k.calcAcceleration, FALSE)
    ELSE downwardStep(c, k.links_[k.i + 1], parent[k.links_[k.i + 1]], k.calcVelocity,
                      k.calcAcceleration, FALSE)

\* The links' state after the call k has run its remaining iterations alone.
RECURSIVE RunCall(_, _)
RunCall(c, k) ==
    IF ~Running(k) THEN c ELSE RunCall(iteration(c, k), [k EXCEPT !.i = @ + 1])

\* mutant of advance: a call waits while the other call is in the middle of
\* its loops
advanceLocked(n) ==
    /\ Running(calls[n])
    /\ \A m \in DOMAIN calls : m # n => ~MidCall(calls[m])
    /\ calls' = [calls EXCEPT ![n].i = @ + 1]

\* The loop control of call n (lines 159, 222): the loops have an iteration
\* left, and i is incremented behind it.
advance(n) ==
    /\ Running(calls[n])
    /\ calls' = [calls EXCEPT ![n].i = @ + 1]

\* The thread of call n runs the next iteration of its loops.
threadStep(n) ==
    /\ advance(n)
    /\ cart' = iteration(cart, calls[n])
    /\ UNCHANGED <<graph, joint, links_, numUpwardConnections, op, written, read,
                   crashed>>

\* The links' state the calls start from.
StartCart == [l \in 1..FKLinks |-> MovingState(l)]

InitRace ==
    /\ parent \in ParentMaps(FKLinks)
    /\ child = [l \in 1..FKLinks |-> FirstChild(parent, l)]
    /\ sibling = [l \in 1..FKLinks |-> NextSibling(parent, l)]
    /\ body = [l \in 1..FKLinks |-> 1]
    /\ joint = [l \in 1..FKLinks |-> JointOfLink(parent, l)]
    /\ cart = StartCart
    /\ links_ = <<>>
    /\ numUpwardConnections = 0
    /\ op = [name |-> "LinkTraverse"]
    /\ written = <<>>
    /\ read = <<>>
    /\ crashed = FALSE
    /\ \E r1 \in Links, r2 \in Links, f1 \in BOOLEAN \X BOOLEAN,
          f2 \in BOOLEAN \X BOOLEAN :
           /\ r1 # r2
           /\ calls = <<StartedCall(findResult(r1, TRUE, TRUE), f1[1], f1[2]),
                        StartedCall(findResult(r2, TRUE, TRUE), f2[1], f2[2])>>

NextRace == \E n \in DOMAIN calls : threadStep(n)

SpecRace == InitRace /\ [][NextRace]_vars

\* ------------------------------------------- claims on the traversal builder
\* The parent edge of link l stays inside l's mechanism.
HasMechParent(l) == parent[l] # Null /\ body[parent[l]] = body[l]

\* Parent steps from l up to the structural root of its mechanism.
RECURSIVE UpSteps(_)
UpSteps(l) == IF HasMechParent(l) THEN 1 + UpSteps(parent[l]) ELSE 0

\* The structural root of l's mechanism.
RECURSIVE MechRoot(_)
MechRoot(l) == IF HasMechParent(l) THEN MechRoot(parent[l]) ELSE l

\* The links connected to l by parent/child edges inside one mechanism.
Mechanism(l) == {m \in Links : MechRoot(m) = MechRoot(l)}

\* The entry at the (0-based) index i of the sequence.
At(i) == links_[i + 1]

Occurrences(l) == Cardinality({i \in DOMAIN links_ : links_[i] = l})

AfterFind == op.name = "find"

\* C1: after find with doUpward and doDownward both set, the reference link
\* is the entry at index 0 and every link of the reference link's mechanism
\* occurs in the sequence exactly once.
C1_BuildCoversMechanism ==
    (AfterFind /\ op.doUpward /\ op.doDownward) =>
        /\ links_ # <<>>
        /\ At(0) = op.link
        /\ \A l \in Mechanism(op.link) : Occurrences(l) = 1

\* C1 witness: a build in both directions from a link with a parent and a
\* child, in a mechanism of three links or more, that also reaches a foreign link.
C1_Witness ==
    /\ AfterFind /\ op.doUpward /\ op.doDownward
    /\ HasMechParent(op.link)
    /\ child[op.link] # Null
    /\ Cardinality(Mechanism(op.link)) >= 3
    /\ Len(links_) > Cardinality(Mechanism(op.link))

\* C2: after find, numUpwardConnections is the number of parent steps from
\* the reference link to the structural root of its mechanism when doUpward
\* is set, and 0 when it is clear.
C2_UpwardCount ==
    AfterFind =>
        numUpwardConnections = (IF op.doUpward THEN UpSteps(op.link) ELSE 0)

\* C2 witness: an upward build over two parent steps that stops below a
\* parent of another mechanism.
C2_Witness ==
    /\ AfterFind /\ op.doUpward
    /\ numUpwardConnections = 2
    /\ parent[MechRoot(op.link)] # Null

\* C3: after find, every entry at an index i in 1..U is the structural parent
\* of the entry at index i-1.
C3_UpwardChain ==
    AfterFind =>
        /\ numUpwardConnections < Len(links_)
        /\ \A i \in 1..numUpwardConnections : At(i) = parent[At(i - 1)]

\* C3 witness: a chain of two upward steps from a link with a child, where the
\* sequence also holds links beside the chain.
C3_Witness ==
    /\ AfterFind /\ op.doDownward
    /\ numUpwardConnections = 2
    /\ child[op.link] # Null
    /\ Len(links_) > 3

\* C4: after find, whatever the flags, every entry at an index above U has a
\* structural parent and that parent is an entry at a lower index.
C4_ParentBeforeChild ==
    AfterFind =>
        \A i \in (numUpwardConnections + 1)..(Len(links_) - 1) :
            /\ parent[At(i)] # Null
            /\ \E j \in 0..(i - 1) : At(j) = parent[At(i)]

\* C4 witness: above the upward chain, an entry whose parent is itself an
\* entry above the chain.
C4_Witness ==
    /\ AfterFind
    /\ numUpwardConnections >= 1
    /\ \E i \in (numUpwardConnections + 1)..(Len(links_) - 1) :
           \E j \in (numUpwardConnections + 1)..(i - 1) : At(j) = parent[At(i)]

\* ------------------------------------------------ claims on the evaluator
AfterCalc == op.name = "calcForwardKinematics" /\ ~crashed

\* The indices of the upward region and of the downward region.
UpwardIndices == 1..numUpwardConnections

DownwardIndices == (numUpwardConnections + 1)..(Len(links_) - 1)

IsRevolute(j) == j.jointType = "ROTATIONAL_JOINT"

IsPrismatic(j) == j.jointType = "SLIDE_JOINT"

\* The position arm of the spec's table for a link with joint j under a
\* parent with rotation Rp.
TableArm(Rp, j) ==
    IF IsPrismatic(j) THEN MatVec(Rp, VAdd(j.b, MatVec(j.Rb, VScale(j.q, j.d))))
    ELSE MatVec(Rp, j.b)

\* The downward rule of the spec's table: the state of a link with joint j
\* under a parent in state ps.  The table writes the revolute angular velocity
\* as w = wparent + (R.Rb.a).dq; axisFrame is the rotation read for that R.
TableDownward(ps, j, axisFrame) ==
    LET arm == TableArm(ps.R, j)
        transport == VAdd(VAdd(ps.dv, Cross(ps.w, Cross(ps.w, arm))), Cross(ps.dw, arm))
    IN  IF IsRevolute(j)
        THEN LET s == MatVec(ps.R, MatVec(j.Rb, j.a))
             IN  [R |-> MatMul(MatMul(ps.R, j.Rb), AngleAxisd(j.q, j.a)),
                  p |-> VAdd(ps.p, arm),
                  w |-> VAdd(ps.w, VScale(j.dq, MatVec(axisFrame, MatVec(j.Rb, j.a)))),
                  dw |-> VAdd(VAdd(ps.dw, VScale(j.dq, Cross(ps.w, s))), VScale(j.ddq, s)),
                  v |-> VAdd(ps.v, Cross(ps.w, arm)),
                  dv |-> transport]
        ELSE IF IsPrismatic(j)
        THEN LET s == MatVec(ps.R, MatVec(j.Rb, j.d))
             IN  [R |-> MatMul(ps.R, j.Rb),
                  p |-> VAdd(ps.p, arm),
                  w |-> ps.w,
                  dw |-> ps.dw,
                  v |-> VAdd(ps.v, VScale(j.dq, s)),
                  dv |-> VAdd(VAdd(transport, VScale(2 * j.dq, Cross(ps.w, s))),
                              VScale(j.ddq, s))]
        ELSE [R |-> MatMul(ps.R, j.Rb),
              p |-> VAdd(ps.p, arm),
              w |-> ps.w,
              dw |-> ps.dw,
              v |-> VAdd(ps.v, Cross(ps.w, arm)),
              dv |-> transport]

\* State s agrees with the tabulated state t in the pose, and in the velocity
\* and acceleration terms the last call was asked for.
AgreesAsRequested(s, t) ==
    /\ s.R = t.R /\ s.p = t.p
    /\ op.calcVelocity => (s.w = t.w /\ s.v = t.v)
    /\ (op.calcVelocity /\ op.calcAcceleration) => (s.dw = t.dw /\ s.dv = t.dv)

\* The special cases C5 names: a fixed joint with no offset copies the
\* parent's pose, a revolute joint at q = 0 has R = Rparent.Rb.
C5_SpecialCases(l) ==
    LET j == joint[l]
        ps == cart[parent[l]]
    IN  /\ (j.jointType = "FIXED_JOINT" /\ j.b = Zero3 /\ j.Rb = Identity3)
               => (cart[l].R = ps.R /\ cart[l].p = ps.p)
        /\ (IsRevolute(j) /\ j.q = 0) => cart[l].R = MatMul(ps.R, j.Rb)

\* C5 as stated (refuted): after calcForwardKinematics every entry above U
\* has the state the spec's table gives from its structural parent's state,
\* the revolute angular velocity read as tabulated, w = wparent + (R.Rb.a).dq
\* with R the link's own rotation.
C5_AsTabulated ==
    AfterCalc =>
        \A i \in DownwardIndices :
            AgreesAsRequested(cart[At(i)],
                TableDownward(cart[parent[At(i)]], joint[At(i)], cart[At(i)].R))

\* C5 (amended): after calcForwardKinematics every entry above U has the
\* state the spec's table gives from its structural parent's state, with the
\* revolute angular velocity w = wparent + (Rparent.Rb.a).dq; a fixed joint
\* with b = 0 and Rb = Identity copies the parent's R and p, and a revolute
\* joint with q = 0 has R = Rparent.Rb.
C5_DownwardRule ==
    AfterCalc =>
        \A i \in DownwardIndices :
            /\ AgreesAsRequested(cart[At(i)],
                   TableDownward(cart[parent[At(i)]], joint[At(i)], cart[parent[At(i)]].R))
            /\ C5_SpecialCases(At(i))

\* C5 witness: velocity and acceleration were propagated from a moving
\* reference link down to a moving revolute joint with a turned joint frame.
C5_Witness ==
    /\ AfterCalc /\ op.calcVelocity /\ op.calcAcceleration
    /\ cart[At(0)].w # Zero3
    /\ \E i \in DownwardIndices : joint[At(i)] = MovingJoint("ROTATIONAL_JOINT")

\* C5 witness of the special cases: a revolute joint at q = 0 with a turned
\* joint frame was propagated downward.
C5_WitnessZeroAngle ==
    /\ AfterCalc
    /\ \E i \in DownwardIndices :
           IsRevolute(joint[At(i)]) /\ joint[At(i)].q = 0 /\ joint[At(i)].Rb # Identity3

\* C6: after calcForwardKinematics, recomputing the entry at index i-1 by the
\* downward rule from the entry at index i, which the upward rule computed
\* from it, gives back the state of the entry at index i-1 (R and p, and the
\* velocity and acceleration terms the call computed), for every i in 1..U.
C6_UpwardInvertsDownward ==
    AfterCalc =>
        \A i \in UpwardIndices :
            downwardStep(cart, At(i - 1), At(i), op.calcVelocity, op.calcAcceleration,
                         FALSE)[At(i - 1)] = cart[At(i - 1)]

\* C6 witness: velocity and acceleration were propagated upward over a moving
\* revolute joint and a moving prismatic joint from a moving reference link.
C6_Witness ==
    /\ AfterCalc /\ op.calcVelocity /\ op.calcAcceleration
    /\ numUpwardConnections >= 2
    /\ cart[At(0)].w # Zero3
    /\ {joint[At(0)], joint[At(1)]} =
           {MovingJoint("ROTATIONAL_JOINT"), MovingJoint("SLIDE_JOINT")}

\* The scenario of C7: linkA hangs under the root of its tree by a revolute
\* joint with axis z, a quarter turn, b = (1,0,0), Rb = Identity; the root is
\* at the origin and the traversal built at the root was propagated.
C7_Scenario(linkA) ==
    /\ AfterCalc
    /\ parent[linkA] # Null /\ parent[parent[linkA]] = Null
    /\ At(0) = parent[linkA]
    /\ \E i \in DownwardIndices : At(i) = linkA
    /\ joint[linkA] = ScenarioJoint("ROTATIONAL_JOINT")
    /\ cart[parent[linkA]].R = Identity3 /\ cart[parent[linkA]].p = Zero3

\* C7 as stated (refuted): in the scenario linkA.R is the quarter turn about z
\* and linkA.p = (0,1,0).
C7_AsStated ==
    \A linkA \in Links :
        C7_Scenario(linkA) => (cart[linkA].R = RotZ /\ cart[linkA].p = <<0, 1, 0>>)

\* C7 (amended): in the scenario linkA.R is the quarter turn about z and
\* linkA.p = (1,0,0), the offset b in the frame of the root.
C7_ScenarioPose ==
    \A linkA \in Links :
        C7_Scenario(linkA) => (cart[linkA].R = RotZ /\ cart[linkA].p = <<1, 0, 0>>)

\* C7 witness: the scenario was propagated.
C7_Witness == \E linkA \in Links : C7_Scenario(linkA)

\* The case of C8: velocity and acceleration were propagated and every link
\* of the traversal has dq = ddq = 0.
C8_AtRest ==
    /\ AfterCalc /\ op.calcVelocity /\ op.calcAcceleration
    /\ \A i \in DOMAIN links_ : joint[links_[i]].dq = 0 /\ joint[links_[i]].ddq = 0

\* C8 as stated (refuted): with all joints at rest every fixed or prismatic
\* entry above U has the w, v, dw, dv of its parent, and every revolute one
\* w = wparent and v = vparent + wparent x arm.
C8_AsStated ==
    C8_AtRest =>
        \A i \in DownwardIndices :
            LET s == cart[At(i)]
                ps == cart[parent[At(i)]]
                j == joint[At(i)]
            IN  IF IsRevolute(j)
                THEN s.w = ps.w /\ s.v = VAdd(ps.v, Cross(ps.w, TableArm(ps.R, j)))
                ELSE s.w = ps.w /\ s.v = ps.v /\ s.dw = ps.dw /\ s.dv = ps.dv

\* The relation of the amended C8 between a link in state s with joint j and
\* its parent in state ps.
C8_Transported(s, ps, j) ==
    LET arm == TableArm(ps.R, j)
    IN  /\ s.w = ps.w
        /\ s.dw = ps.dw
        /\ s.v = (IF IsPrismatic(j) THEN ps.v ELSE VAdd(ps.v, Cross(ps.w, arm)))
        /\ s.dv = VAdd(VAdd(ps.dv, Cross(ps.w, Cross(ps.w, arm))), Cross(ps.dw, arm))

\* C8 (amended): with all joints at rest every link and its parent, in both
\* passes, end with equal w and equal dw; a prismatic link has the v of its
\* parent, a fixed or revolute link v = vparent + wparent x arm; and every
\* link has dv = dvparent + wparent x (wparent x arm) + dwparent x arm.
C8_RestingJoints ==
    C8_AtRest =>
        /\ \A i \in DownwardIndices :
               C8_Transported(cart[At(i)], cart[parent[At(i)]], joint[At(i)])
        /\ \A i \in UpwardIndices :
               C8_Transported(cart[At(i - 1)], cart[At(i)], joint[At(i - 1)])

\* C8 witness: at rest, a prismatic and a fixed or revolute link with an arm
\* that the parent's angular velocity transports, in a traversal with an
\* upward entry.
C8_Witness ==
    /\ C8_AtRest
    /\ numUpwardConnections >= 1
    /\ \E i \in DownwardIndices :
           /\ ~IsPrismatic(joint[At(i)])
           /\ Cross(cart[parent[At(i)]].w,
                    TableArm(cart[parent[At(i)]].R, joint[At(i)])) # Zero3
    /\ IsPrismatic(joint[At(0)])

\* The velocity fields and the acceleration fields of all links.
VelocityFields(c) == [l \in DOMAIN c |-> <<c[l].w, c[l].v>>]

AccelerationFields(c) == [l \in DOMAIN c |-> <<c[l].dw, c[l].dv>>]

\* C9: a call of calcForwardKinematics with calcVelocity false leaves w, v, dw
\* and dv of every link as they were, and a call without both calcVelocity and
\* calcAcceleration leaves dw and dv of every link as they were.
C9_FlagsGateWrites ==
    [][op'.name = "calcForwardKinematics" =>
          /\ ~op'.calcVelocity =>
                 VelocityFields(cart') = VelocityFields(cart)
          /\ ~(op'.calcVelocity /\ op'.calcAcceleration) =>
                 AccelerationFields(cart') = AccelerationFields(cart)]_vars

\* C9 witness: a call with calcVelocity false and calcAcceleration true wrote
\* the pose of a link with a moving joint and left its angular velocity as it
\* was before the first call.
C9_Witness ==
    /\ AfterCalc /\ ~op.calcVelocity /\ op.calcAcceleration
    /\ \E i \in DOMAIN written :
           /\ joint[written[i]].dq # 0
           /\ cart[written[i]].p # MovingState(written[i]).p
           /\ cart[written[i]].w = MovingState(written[i]).w
           /\ cart[written[i]].dw = MovingState(written[i]).dw

\* ------------------------------------------------- claims on the whole class
\* A step is a call of calcForwardKinematics on a non-empty traversal.
PropagateStep == op'.name = "calcForwardKinematics" /\ links_ # <<>>

\* The link at index 0 is left alone by the step: it is not among the links
\* written and its state is what it was.
FrontUntouched ==
    /\ cart'[At(0)] = cart[At(0)]
    /\ \A i \in DOMAIN written' : written'[i] # At(0)

\* C10 as stated (refuted): on every traversal reachable through find, append,
\* remove and prependRootAdjacentLinkToward, calcForwardKinematics does not
\* write the state of the link at index 0.
C10_AsStated == [][PropagateStep => FrontUntouched]_vars

\* C10 (amended): on every such traversal in which the link at index 0 is
\* stored at no other index and U is less than the length,
\* calcForwardKinematics does not write the state of the link at index 0.
C10_ReferenceUntouched ==
    [][(PropagateStep /\ Occurrences(At(0)) = 1 /\ numUpwardConnections < Len(links_))
           => FrontUntouched]_vars

\* The traversal is the result of no find call: it has been edited.
Edited ==
    \A root \in Links, doUpward \in BOOLEAN, doDownward \in BOOLEAN :
        findResult(root, doUpward, doDownward) # Traversal(links_, numUpwardConnections)

\* C10 witness: an edited traversal with an upward and a downward entry, its
\* front link stored once, was propagated and the other entries written.
C10_Witness ==
    /\ AfterCalc /\ Edited
    /\ numUpwardConnections >= 1 /\ numUpwardConnections < Len(links_) - 1
    /\ Occurrences(At(0)) = 1
    /\ Len(written) = Len(links_) - 1
    /\ cart[At(0)] = MovingState(At(0))
    /\ \A i \in DOMAIN written : cart[written[i]] # MovingState(written[i])

\* -------------------------------------------- claims on the editing operations
\* The set of links stored in the sequence.
Entries == {links_[i] : i \in DOMAIN links_}

\* The sequence ls without its entry at the (0-based) index k.
Without(ls, k) == SubSeq(ls, 1, k) \o SubSeq(ls, k + 2, Len(ls))

\* The (0-based) index of the first entry equal to l, which is stored.
FirstAt(l) == CHOOSE k \in 0..(Len(links_) - 1) :
                  At(k) = l /\ \A m \in 0..(k - 1) : At(m) # l

RemoveStep == op'.name = "remove"

\* C11: remove(link) with a link that is not an entry returns false and
\* leaves the sequence and U as they were.
C11_RemoveAbsent ==
    [][(RemoveStep /\ op'.link \notin Entries) =>
           /\ op'.result = FALSE
           /\ links_' = links_
           /\ numUpwardConnections' = numUpwardConnections]_vars

\* C11 witness: remove has failed on a traversal of two entries or more with
\* upward connections.
C11_Witness ==
    /\ op.name = "remove" /\ op.result = FALSE
    /\ Len(links_) >= 2
    /\ numUpwardConnections >= 1

\* C12: remove(link) with a link that is an entry returns true, erases the
\* first entry equal to link and no other, keeps the order of the rest, and
\* decrements U exactly when the erased index is <= U.
C12_RemovePresent ==
    [][(RemoveStep /\ op'.link \in Entries) =>
           LET k == FirstAt(op'.link)
           IN  /\ op'.result = TRUE
               /\ links_' = Without(links_, k)
               /\ numUpwardConnections' =
                      (IF k <= numUpwardConnections THEN numUpwardConnections - 1
                       ELSE numUpwardConnections)]_vars

\* C12 witness: remove has erased the first of two entries equal to its link,
\* the other one is still stored behind a different link.
C12_Witness ==
    /\ op.name = "remove" /\ op.result = TRUE
    /\ Len(links_) >= 2
    /\ links_[Len(links_)] = op.link
    /\ links_[1] # op.link

AppendStep == op'.name = "append"

\* C13: append(link, isDownwardEdge) makes link the new last entry, leaves
\* the earlier entries as they were, and increases U by one exactly when
\* isDownwardEdge is false.
C13_Append ==
    [][AppendStep =>
           /\ Len(links_') = Len(links_) + 1
           /\ links_'[Len(links_')] = op'.link
           /\ \A i \in DOMAIN links_ : links_'[i] = links_[i]
           /\ numUpwardConnections' =
                  (IF op'.isDownward THEN numUpwardConnections
                   ELSE numUpwardConnections + 1)]_vars

\* C13 witness: an upward append behind two entries.
C13_Witness ==
    /\ op.name = "append" /\ ~op.isDownward
    /\ Len(links_) = 3
    /\ numUpwardConnections >= 1

\* The link l and its structural ancestors, whatever their mechanism.
RECURSIVE Ancestors(_)
Ancestors(l) == IF parent[l] = Null THEN {l} ELSE {l} \cup Ancestors(parent[l])

\* a and b are joined by a run of parent/child edges.
Connected(a, b) == Ancestors(a) \cap Ancestors(b) # {}

\* The deepest link that is an ancestor of both a and b.
Meet(a, b) ==
    CHOOSE x \in Ancestors(a) \cap Ancestors(b) :
        \A y \in Ancestors(a) \cap Ancestors(b) :
            Cardinality(Ancestors(y)) <= Cardinality(Ancestors(x))

\* The links on the tree path between a and b, both included.
TreePath(a, b) ==
    ((Ancestors(a) \cup Ancestors(b)) \ (Ancestors(a) \cap Ancestors(b)))
        \cup {Meet(a, b)}

PrependStep == op'.name = "prependRootAdjacentLinkToward"

\* C14: on a non-empty traversal, with a target that is not the front entry
\* and is connected to it, prependRootAdjacentLinkToward returns one link, the
\* structural parent or a structural child of the front that lies on the tree
\* path from the front to the target, and inserts it at index 0 before the
\* previous entries, which keep their order.
C14_PrependAdjacent ==
    [][(PrependStep /\ links_ # <<>> /\ op'.link # At(0)
            /\ Connected(op'.link, At(0))) =>
           /\ op'.result # Null
           /\ op'.result = parent[At(0)] \/ parent[op'.result] = At(0)
           /\ op'.result \in TreePath(At(0), op'.link) \ {At(0)}
           /\ links_' = <<op'.result>> \o links_]_vars

\* C14 witness: the parent of the old front was inserted on the way to a
\* target further away, found by the search among the children.
C14_Witness ==
    /\ op.name = "prependRootAdjacentLinkToward"
    /\ Len(links_) >= 2
    /\ op.result = links_[1]
    /\ op.result = parent[links_[2]]
    /\ op.link # op.result

\* The call has returned null and inserted nothing.
PrependedNothing ==
    /\ op'.result = Null
    /\ links_' = links_
    /\ numUpwardConnections' = numUpwardConnections

\* C15 as stated (refuted): prependRootAdjacentLinkToward returns null and
\* inserts nothing whenever the target is not connected to the front entry or
\* is already an entry of the traversal, at any index.
C15_AsStated ==
    [][(PrependStep /\ links_ # <<>>
            /\ (~Connected(op'.link, At(0)) \/ op'.link \in Entries)) =>
           PrependedNothing]_vars

\* What the code does return null for: an empty traversal, a target that
\* is not connected to the front entry, and the front entry itself.
C15_NullCases ==
    [][(PrependStep /\ (links_ = <<>> \/ ~Connected(op'.link, At(0))
                            \/ op'.link = At(0))) =>
           PrependedNothing]_vars

\* --------------------------------------------- further claims on the whole class
\* C16 as stated (refuted): on every traversal reachable through the default
\* constructor, find, append, remove, prependRootAdjacentLinkToward and clear,
\* calcForwardKinematics reads the sequence at indices inside it only, every
\* entry of the downward pass has a structural parent, and no call is stopped
\* by a read through an invalid pointer.
C16_AsStated ==
    /\ \A i \in 1..numUpwardConnections : i < Len(links_)
    /\ \A i \in 1..(Len(links_) - 1) :
           i > numUpwardConnections => parent[At(i)] # Null
    /\ ~crashed

RECURSIVE MechChain(_)
MechChain(l) == <<l>> \o (IF HasMechParent(l) THEN MechChain(parent[l]) ELSE <<>>)

\* The link r and every link below it, whatever their mechanism.
Descendants(r) == {l \in Links : r \in Ancestors(l)}

UpwardOnlyFind == AfterFind /\ op.doUpward /\ ~op.doDownward

\* C18 as stated (refuted): find(reference, true, false) yields the reference
\* link followed by its ancestors inside its mechanism, and no other link.
C18_AsStated == UpwardOnlyFind => links_ = MechChain(op.link)

\* C18 (amended): find(reference, true, false) yields the reference link
\* followed by its ancestors inside its mechanism, at the indices 0..U, and
\* behind them, once each, the links below those ancestors that are not below
\* the reference link: child edges are followed from every ancestor reached
\* by an upward step, and not from the reference link.
C18_UpwardBuild ==
    UpwardOnlyFind =>
        /\ SubSeq(links_, 1, numUpwardConnections + 1) = MechChain(op.link)
        /\ Entries = {op.link} \cup
                         (Descendants(MechRoot(op.link)) \ Descendants(op.link))
        /\ Len(links_) = Cardinality(Entries)

\* C18 witness: an upward-only find from a link that has a child, which is
\* left out, and an ancestor with another branch, which is stored.
C18_Witness ==
    /\ UpwardOnlyFind
    /\ numUpwardConnections >= 1
    /\ Len(links_) > numUpwardConnections + 1
    /\ child[op.link] # Null

\* ------------------------------------ further claims on the editing operations
\* The entries 0..n of ls form a root-ward chain: every entry at an index i
\* in 1..n is stored and is the structural parent of the entry at index i-1.
UpwardChain(ls, n) ==
    \A i \in 1..n : i < Len(ls) /\ ls[i + 1] = parent[ls[i]]

\* A step is a call of one of the four mutating operations.
MutatingStep ==
    op'.name \in {"find", "append", "remove", "prependRootAdjacentLinkToward"}

\* C19 as stated (refuted): find, append, remove and
\* prependRootAdjacentLinkToward each keep the entries 0..U a root-ward chain.
C19_AsStated ==
    [][(MutatingStep /\ UpwardChain(links_, numUpwardConnections)) =>
           UpwardChain(links_', numUpwardConnections')]_vars

\* The calls that keep the chain: any find; an append on a downward edge; a
\* remove that fails or erases the entry at index 0, at index U or behind it;
\* a prepend that fails, inserts a structural child of the front, or finds
\* no upward connection (U < 1).
KeepsChain ==
    \/ op'.name = "find"
    \/ op'.name = "append" /\ op'.isDownward
    \/ /\ op'.name = "remove"
       /\ \/ op'.result = FALSE
          \/ FirstAt(op'.link) = 0
          \/ FirstAt(op'.link) >= numUpwardConnections
    \/ /\ op'.name = "prependRootAdjacentLinkToward"
       /\ \/ op'.result = Null
          \/ parent[op'.result] = At(0)
          \/ numUpwardConnections < 1

\* C19 (amended): the calls of KeepsChain keep the entries 0..U a root-ward
\* chain.
C19_ChainKept ==
    [][(KeepsChain /\ UpwardChain(links_, numUpwardConnections)) =>
           UpwardChain(links_', numUpwardConnections')]_vars

\* C19 witness: prependRootAdjacentLinkToward has put a child of the old front
\* before a chain of one upward connection, which is now a chain of two.
C19_Witness ==
    /\ op.name = "prependRootAdjacentLinkToward" /\ op.result # Null
    /\ numUpwardConnections = 2
    /\ Len(links_) = 3
    /\ UpwardChain(links_, numUpwardConnections)

\* ------------------------------------------ further claims on the evaluator
\* C20: calcForwardKinematics on a freshly built traversal writes the entries
\* at the indices 1, 2, ... in this order, once each; an entry at an index in
\* 1..U is computed from the entry before it and an entry behind U from its
\* structural parent, so the upward entries are all written before the first
\* downward one; and the link an entry is computed from is the reference link
\* or a link written earlier in the same call.
C20_IndexOrder ==
    AfterCalc =>
        /\ written = [k \in 1..(Len(links_) - 1) |-> At(k)]
        /\ Len(read) = Len(written)
        /\ \A k \in DOMAIN written :
               /\ k <= numUpwardConnections => read[k] = At(k - 1)
               /\ k > numUpwardConnections => read[k] = parent[At(k)]
               /\ read[k] = At(0) \/ \E m \in 1..(k - 1) : written[m] = read[k]

\* C20 witness: a call that wrote an upward entry and then a downward entry
\* computed from a link written before it, not from the reference link.
C20_Witness ==
    /\ AfterCalc
    /\ numUpwardConnections >= 1
    /\ Len(written) = Len(links_) - 1
    /\ \E k \in DOMAIN written : k > numUpwardConnections /\ read[k] # At(0)

\* The joint type is none the switch has a case for.
Unrecognised(j) ==
    j.jointType \notin {"ROTATIONAL_JOINT", "SLIDE_JOINT", "FIXED_JOINT"}

\* The joint j with the type tag of a fixed joint.
AsFixed(j) == [j EXCEPT !.jointType = "FIXED_JOINT"]

\* C21: a link whose joint type is neither revolute nor prismatic nor fixed is
\* propagated as the table's Fixed row says, in the downward pass from its
\* parent and in the upward pass from its child (the state written is the
\* one whose Fixed image is the child), for the pose and for the velocity and
\* acceleration asked for; and the call is not stopped.
C21_FallbackIsFixed ==
    /\ op.name = "calcForwardKinematics" => ~crashed
    /\ AfterCalc =>
        /\ \A i \in DownwardIndices :
               Unrecognised(joint[At(i)]) =>
                   AgreesAsRequested(cart[At(i)],
                                     TableDownward(cart[parent[At(i)]],
                                                   AsFixed(joint[At(i)]),
                                                   cart[parent[At(i)]].R))
        /\ \A i \in UpwardIndices :
               Unrecognised(joint[At(i - 1)]) =>
                   AgreesAsRequested(cart[At(i - 1)],
                                     TableDownward(cart[At(i)],
                                                   AsFixed(joint[At(i - 1)]),
                                                   cart[At(i)].R))

\* C21 witness: velocity and acceleration were propagated upward and downward
\* over joints of a type without a case, from a moving reference link.
C21_Witness ==
    /\ AfterCalc /\ op.calcVelocity /\ op.calcAcceleration
    /\ cart[At(0)].w # Zero3
    /\ \E i \in UpwardIndices : Unrecognised(joint[At(i - 1)])
    /\ \E i \in DownwardIndices : Unrecognised(joint[At(i)])

\* ------------------------------------------------ claims on unserialised calls
\* The links' state after call n has run alone and then call m has run alone.
Serial(n, m) ==
    RunCall(RunCall(StartCart, [calls[n] EXCEPT !.i = FirstIndex]),
            [calls[m] EXCEPT !.i = FirstIndex])

\* C22: the class holds no lock: while one call is in the middle of its loops,
\* the loops of the other call go on to their next iteration.  (The state in which both calls
\* have ended with a result of neither serial order is C22_Witness.)
C22_NoLocking ==
    \A n \in DOMAIN calls, m \in DOMAIN calls :
        (n # m /\ MidCall(calls[n]) /\ Running(calls[m])) => ENABLED advance(m)

\* C22 witness: both calls have run all their iterations, interleaved, and the
\* links' state is the result of neither serial order of the two calls.
C22_Witness ==
    /\ calls # <<>>
    /\ \A n \in DOMAIN calls : ~Running(calls[n])
    /\ cart # Serial(1, 2)
    /\ cart # Serial(2, 1)

\* C23: find gives the sequence and U that find gives on a newly constructed
\* traversal, whatever entries and whatever U the traversal held before.
C23_BuildIgnoresPrior ==
    [][op'.name = "find" =>
           Traversal(links_', numUpwardConnections') =
               findResult(op'.link, op'.doUpward, op'.doDownward)]_vars

\* C23 witness: find has run on a traversal that held entries other than the
\* ones it now holds and a U above the new one and outside 0..length-1.
C23_Witness ==
    /\ AfterFind
    /\ op.before.links_ # <<>>
    /\ op.before.links_[1] # links_[1]
    /\ op.before.numUpwardConnections > numUpwardConnections
    /\ op.before.numUpwardConnections >= Len(op.before.links_)
    /\ Len(links_) >= 2

\* C24: when prependRootAdjacentLinkToward inserts a link, the inserted link
\* is a structural child of the old front exactly when the old front is a
\* proper ancestor of the target, U grows by one in that case, and U stays as
\* it was when the inserted link is the old front's structural parent.
C24_PrependCount ==
    [][(PrependStep /\ op'.result # Null) =>
           /\ (parent[op'.result] = At(0)) <=>
                  (At(0) \in Ancestors(op'.link) \ {op'.link})
           /\ (parent[op'.result] = At(0)) <=>
                  (numUpwardConnections' = numUpwardConnections + 1)
           /\ (op'.result = parent[At(0)]) =>
                  (numUpwardConnections' = numUpwardConnections)]_vars

\* C24 witness: a child of the old front was inserted on the way to a target
\* below it, behind an earlier insertion, and U has grown.
C24_Witness ==
    /\ op.name = "prependRootAdjacentLinkToward"
    /\ Len(links_) >= 2
    /\ op.result = links_[1]
    /\ parent[op.result] = links_[2]
    /\ op.link # op.result
    /\ numUpwardConnections >= 1

\* C25: whenever prependRootAdjacentLinkToward returns null, the traversal is
\* empty, or the target is the front entry or is not connected to it; the
\* sequence and U are what they were, and the call raises no error.
C25_NullLeavesTraversal ==
    [][(PrependStep /\ op'.result = Null) =>
           /\ links_ = <<>> \/ op'.link = At(0) \/ ~Connected(op'.link, At(0))
           /\ links_' = links_
           /\ numUpwardConnections' = numUpwardConnections
           /\ crashed' = crashed]_vars

\* C25 witness: the call has returned null on a traversal of two entries or
\* more with upward connections, for a target other than the front entry.
C25_Witness ==
    /\ op.name = "prependRootAdjacentLinkToward"
    /\ op.result = Null
    /\ Len(links_) >= 2
    /\ numUpwardConnections >= 1
    /\ op.link # links_[1]

\* The sequence names no link twice.
NoRepeat(ls) == \A i \in DOMAIN ls, j \in DOMAIN ls : ls[i] = ls[j] => i = j

\* C26: find and prependRootAdjacentLinkToward return on every tree, traverse
\* (which puts the link it is entered on into the sequence) is entered on each
\* link once at most in a find, and findRootAdjacentLink is entered on each
\* link once at most in a prepend.
C26_EnteredOnce ==
    /\ AfterFind => NoRepeat(links_) /\ Len(links_) <= Cardinality(Links)
    /\ op.name = "prependRootAdjacentLinkToward" =>
           NoRepeat(op.entered) /\ Len(op.entered) <= Cardinality(Links)

\* C26 witness: a prepend whose search went up from the target, failed
\* there, and went through the children to the front; it entered every link.
C26_Witness ==
    /\ op.name = "prependRootAdjacentLinkToward"
    /\ op.result # Null
    /\ Len(op.entered) = Cardinality(Links)
    /\ op.entered[1] = op.link
    /\ parent[op.link] # Null
    /\ op.entered[2] = parent[op.link]
    /\ op.result = parent[links_[2]]

\* C27 as stated (refuted): after any run of find, append, remove,
\* prependRootAdjacentLinkToward and clear on a default-constructed traversal,
\* U is not negative.
C27_AsStated == numUpwardConnections >= 0

\* C28 as stated (refuted): after any run of find, append, remove,
\* prependRootAdjacentLinkToward and clear on a default-constructed traversal,
\* U is at most length - 1 when the sequence has entries and 0 when it has none.
C28_AsStated ==
    IF links_ = <<>> THEN numUpwardConnections = 0
    ELSE numUpwardConnections <= Len(links_) - 1

\* C29 as stated (refuted): the default constructor and LinkTraverse(size)
\* give an empty sequence with U = 0, the constructor with a reference link
\* gives what find gives on an empty traversal, and the copy constructor gives
\* the sequence and U of the original.
C29_AsStated ==
    /\ op.name \in {"LinkTraverse", "LinkTraverse(size)"} =>
           links_ = <<>> /\ numUpwardConnections = 0
    /\ op.name = "LinkTraverse(root, doUpward, doDownward)" =>
           Traversal(links_, numUpwardConnections) =
               findResult(op.link, op.doUpward, op.doDownward)
    /\ op.name = "LinkTraverse(org)" =>
           Traversal(links_, numUpwardConnections) = op.org

\* Every entry behind the reference link has been written once by the call,
\* and nothing else has.
WrittenOnce(ws) ==
    /\ Len(ws) = Len(links_) - 1
    /\ \A i \in 2..Len(links_) : Cardinality({j \in DOMAIN ws : ws[j] = links_[i]}) = 1

\* C30: on a traversal built by find, a calcForwardKinematics call that
\* follows a call with the same flags leaves every link's state as that call
\* left it, and every call writes each entry behind the reference link once.
C30_Idempotent ==
    [][(op'.name = "calcForwardKinematics") =>
           /\ ~crashed'
           /\ WrittenOnce(written')
           /\ op'.repeats => cart' = cart]_vars

\* C30 witness: a call with velocities and accelerations has been repeated on
\* a traversal of all the links with an upward and a downward pass, and the
\* links hold states the calls have computed.
C30_Witness ==
    /\ op.name = "calcForwardKinematics" /\ op.repeats
    /\ op.calcVelocity /\ op.calcAcceleration
    /\ Len(links_) = Cardinality(Links)
    /\ numUpwardConnections >= 1
    /\ numUpwardConnections < Len(links_) - 1
    /\ \A i \in 2..Len(links_) :
           cart[links_[i]] \notin {AtOrigin, MovingState(links_[i])}
    /\ \E l \in Links : joint[l].jointType = "FIXED_JOINT" /\ parent[l] # Null

====
